---- MODULE Spec2Model ----
(***************************************************************************)
(* Rate limiter and input guard of the portfolio API (src/main.go).        *)
(*                                                                         *)
(* Time is counted in ticks; TicksPerMinute ticks make one minute, so the  *)
(* windows of time.Minute and 5*time.Minute keep their 1:5 ratio.          *)
(* time.Time.After is the strict >, time.Time.Before the strict <.         *)
(***************************************************************************)
EXTENDS Integers, Sequences, FiniteSets, TLC

\* ---------------------------------------------------------------- bounds
TicksPerMinute == 2
MaxTime == 11
MaxCalls == 5
MaxRequests == 4
MaxServerTicks == 1

\* ------------------------------------------------------ program constants
ShortWindowMinutes == 1
LongWindowMinutes == 5
PerMinuteLimit == 3
FiveMinuteLimit == 10

OneMinute == ShortWindowMinutes * TicksPerMinute
FiveMinutes == LongWindowMinutes * TicksPerMinute

ClientIPs == {"a", "b"}
Handlers == {"h1", "h2"}

VARIABLES
    clock,      \* the value time.Now() returns
    clients,    \* rl.clients: clientIP -> [requests, lastReset]
    last,       \* the last RateLimiter call: operation, argument, result, purged count
    admitted,   \* history: per clientIP, the times of the calls that returned true
    calls,      \* history: per clientIP, the number of IsAllowed calls
    touched,    \* history: per clientIP, the time of its last IsAllowed call
    mutex,      \* rl.mutex: its holder, or "free"
    llmService, \* h.llmService: "nil" or "set"
    handler,    \* per goroutine serving /api/chatbot: its place, request and locals
    sweeper,    \* the cleanup goroutine of main: its place and its now
    arrivals,   \* history: the number of requests received
    refused     \* history: per clientIP, the number of its requests answered 400

limiterVars == <<clock, clients, last, admitted, calls, touched>>
serverVars == <<mutex, llmService, handler, sweeper, arrivals, refused>>
vars == <<clock, clients, last, admitted, calls, touched,
          mutex, llmService, handler, sweeper, arrivals, refused>>

\* ---------------------------------------------------------- RateLimiter
NewRateLimiter == <<>>

NoCall == [op |-> "none", ip |-> "", ok |-> FALSE, purged |-> 0, stale |-> {}]

\* validRequests: the requests with reqTime.After(fiveMinutesAgo)
ValidRequests(requests, now) ==
    SelectSeq(requests, LAMBDA reqTime : reqTime > now - FiveMinutes)

\* (variant) the count never forgets: every kept request counts as recent
RecentRequestsNoWindow(requests, now) ==
    Len(requests)

\* (variant) reqTime.After(oneMinuteAgo) replaced by !reqTime.Before(oneMinuteAgo)
RecentRequestsInclusive(requests, now) ==
    Len(SelectSeq(requests, LAMBDA reqTime : reqTime >= now - OneMinute))

\* recentRequests: the number of requests with reqTime.After(oneMinuteAgo)
RecentRequests(requests, now) ==
    Len(SelectSeq(requests, LAMBDA reqTime : reqTime > now - OneMinute))

\* (variant) recentRequests > 3: one request too many per minute
OverLimitOffByOne(recentRequests, total) ==
    recentRequests > PerMinuteLimit \/ total >= FiveMinuteLimit

\* (variant) the five-minute test left out
OverLimitShortOnly(recentRequests, total) ==
    recentRequests >= PerMinuteLimit

\* recentRequests >= 3 || len(client.requests) >= 10
OverLimit(recentRequests, total) ==
    recentRequests >= PerMinuteLimit \/ total >= FiveMinuteLimit

\* (variant) a new client limiter replaces the registry
GetOrCreateAlone(cl, clientIP, now) ==
    IF clientIP \in DOMAIN cl
    THEN cl
    ELSE [ip \in {clientIP} |-> [requests |-> <<>>, lastReset |-> now]]

\* Get or create client limiter
GetOrCreate(cl, clientIP, now) ==
    IF clientIP \in DOMAIN cl
    THEN cl
    ELSE [ip \in DOMAIN cl \cup {clientIP} |->
            IF ip = clientIP THEN [requests |-> <<>>, lastReset |-> now] ELSE cl[ip]]

\* The registry after IsAllowed(clientIP) at time now, and its result
IsAllowedResult(cl, clientIP, now) ==
    LET created == GetOrCreate(cl, clientIP, now)
        valid == ValidRequests(created[clientIP].requests, now)
    IN  ~OverLimit(RecentRequests(valid, now), Len(valid))

\* (variant) the request is recorded before the limits are tested
IsAllowedClientsAlwaysAppend(cl, clientIP, now) ==
    LET created == GetOrCreate(cl, clientIP, now)
        valid == ValidRequests(created[clientIP].requests, now)
    IN  [created EXCEPT ![clientIP].requests = Append(valid, now)]

\* (variant) a rejected call blocks the client for five more minutes
IsAllowedClientsBlock(cl, clientIP, now) ==
    LET created == GetOrCreate(cl, clientIP, now)
        valid == ValidRequests(created[clientIP].requests, now)
    IN  IF OverLimit(RecentRequests(valid, now), Len(valid))
        THEN [created EXCEPT ![clientIP].requests =
                  [i \in 1..Len(valid) |-> now + FiveMinutes]]
        ELSE [created EXCEPT ![clientIP].requests = Append(valid, now)]

IsAllowedClients(cl, clientIP, now) ==
    LET created == GetOrCreate(cl, clientIP, now)
        valid == ValidRequests(created[clientIP].requests, now)
    IN  IF OverLimit(RecentRequests(valid, now), Len(valid))
        THEN [created EXCEPT ![clientIP].requests = valid]
        ELSE [created EXCEPT ![clientIP].requests = Append(valid, now)]

IsAllowed(clientIP) ==
    LET ok == IsAllowedResult(clients, clientIP, clock)
        before == IF clientIP \in DOMAIN clients THEN Len(clients[clientIP].requests) ELSE 0
        after == Len(IsAllowedClients(clients, clientIP, clock)[clientIP].requests)
    IN  /\ clients' = IsAllowedClients(clients, clientIP, clock)
        /\ last' = [op |-> "IsAllowed", ip |-> clientIP, ok |-> ok,
                    purged |-> before - (IF ok THEN after - 1 ELSE after),
                    stale |-> {}]
        /\ admitted' = IF ok THEN [admitted EXCEPT ![clientIP] = Append(@, clock)]
                             ELSE admitted
        /\ UNCHANGED clock

\* client.lastReset.Before(fiveMinutesAgo)
StaleReset(client, now) == client.lastReset < now - FiveMinutes

\* (variant) the sweep deletes by age alone
CleanupDeletesStale(client, now) ==
    StaleReset(client, now)

\* (variant) the sweep tests the age of the requests, not their number
CleanupDeletesOld(client, now) ==
    StaleReset(client, now) /\ ValidRequests(client.requests, now) = <<>>

\* the condition of delete(rl.clients, ip)
CleanupDeletes(client, now) ==
    StaleReset(client, now) /\ Len(client.requests) = 0

CleanupClients(cl, now) ==
    [ip \in {i \in DOMAIN cl : ~CleanupDeletes(cl[i], now)} |-> cl[ip]]

\* last.purged: the number of windows deleted; last.stale: the clients whose
\* lastReset was before fiveMinutesAgo at the sweep
Cleanup ==
    /\ clients' = CleanupClients(clients, clock)
    /\ last' = [op |-> "Cleanup", ip |-> "", ok |-> TRUE,
                purged |-> Cardinality(DOMAIN clients \ DOMAIN CleanupClients(clients, clock)),
                stale |-> {ip \in DOMAIN clients : StaleReset(clients[ip], clock)}]
    /\ UNCHANGED <<clock, admitted>>

Tick ==
    /\ clock < MaxTime
    /\ clock' = clock + 1
    /\ UNCHANGED <<clients, last, admitted>>

\* no request: the r of a goroutine that serves none
NoRequest == [method |-> "", xff |-> <<>>, xri |-> <<>>, remoteAddr |-> <<>>]

\* a goroutine with no request: r is the request it serves, allowed is the
\* result of IsAllowed ("" before it returns), validated and llm tell whether
\* validateChatbotInput and ProcessQuery were called, on request.Query; err
\* and status are the answer
Idle ==
    [pc |-> "idle", r |-> NoRequest, clientIP |-> "", now |-> 0, allowed |-> "",
     query |-> <<>>, validated |-> FALSE, err |-> "", llm |-> FALSE, status |-> 0]

InitServer ==
    /\ mutex = "free"
    /\ handler = [h \in Handlers |-> Idle]
    /\ sweeper = "wait"
    /\ arrivals = 0
    /\ refused = [ip \in ClientIPs |-> 0]

Init ==
    /\ clock = 0
    /\ clients = NewRateLimiter
    /\ last = NoCall
    /\ admitted = [ip \in ClientIPs |-> <<>>]
    /\ calls = [ip \in ClientIPs |-> 0]
    /\ touched = [ip \in ClientIPs |-> -1]
    /\ llmService = "set"
    /\ InitServer

\* One client calling without bound: the window of one identifier
NextLimiter ==
    \/ IsAllowed("a") /\ UNCHANGED <<calls, touched, serverVars>>
    \/ Tick /\ UNCHANGED <<calls, touched, serverVars>>

SpecLimiter == Init /\ [][NextLimiter]_vars

\* Several clients, MaxCalls calls in all, and the sweep: the registry
TotalCalls == calls["a"] + calls["b"]

Request(clientIP) ==
    /\ TotalCalls < MaxCalls
    /\ IsAllowed(clientIP)
    /\ calls' = [calls EXCEPT ![clientIP] = @ + 1]
    /\ touched' = [touched EXCEPT ![clientIP] = clock]
    /\ UNCHANGED serverVars

NextClients ==
    \/ \E clientIP \in ClientIPs : Request(clientIP)
    \/ Cleanup /\ UNCHANGED <<calls, touched, serverVars>>
    \/ Tick /\ UNCHANGED <<calls, touched, serverVars>>

SpecClients == Init /\ [][NextClients]_vars
\* ------------------------------------------------------------- strings
\* A string is a sequence of pieces; in an input of validateChatbotInput each
\* piece is one byte, in a header value a piece is a separator (",", ":", a
\* whitespace byte) or a run of other bytes.
Whitespace == {" ", "\t", "\n", "\r"}

\* (variant) strings.Trim(s, " "): tabs and line ends are not trimmed
TrimSpaceOnlySpaces(s) ==
    LET solid == {i \in 1..Len(s) : s[i] # " "}
    IN  IF solid = {} THEN <<>>
        ELSE SubSeq(s, CHOOSE i \in solid : \A j \in solid : i <= j,
                       CHOOSE i \in solid : \A j \in solid : i >= j)

\* strings.TrimSpace
TrimSpace(s) ==
    LET solid == {i \in 1..Len(s) : s[i] \notin Whitespace}
    IN  IF solid = {} THEN <<>>
        ELSE SubSeq(s, CHOOSE i \in solid : \A j \in solid : i <= j,
                       CHOOSE i \in solid : \A j \in solid : i >= j)

\* the Go string of a sequence of pieces
RECURSIVE Join(_)
Join(s) == IF s = <<>> THEN "" ELSE s[1] \o Join(Tail(s))

\* ------------------------------------------------- validateChatbotInput
MaxInputLen == 500
MaxRepeat == 10

UpperCase == <<"A", "B", "C", "D", "E", "F", "G", "H", "I", "J", "K", "L", "M",
               "N", "O", "P", "Q", "R", "S", "T", "U", "V", "W", "X", "Y", "Z">>
LowerCase == <<"a", "b", "c", "d", "e", "f", "g", "h", "i", "j", "k", "l", "m",
               "n", "o", "p", "q", "r", "s", "t", "u", "v", "w", "x", "y", "z">>

\* (variant) the pattern without (?i)
FoldNothing(char) == char

\* the case folding of (?i)
Fold(char) ==
    IF \E i \in 1..26 : UpperCase[i] = char
    THEN LowerCase[CHOOSE i \in 1..26 : UpperCase[i] = char]
    ELSE char

\* (?i)(hack|exploit|attack|inject|<script|javascript:|data:|vbscript:)
suspiciousPatterns ==
    { <<"h", "a", "c", "k">>,
      <<"e", "x", "p", "l", "o", "i", "t">>,
      <<"a", "t", "t", "a", "c", "k">>,
      <<"i", "n", "j", "e", "c", "t">>,
      <<"<", "s", "c", "r", "i", "p", "t">>,
      <<"j", "a", "v", "a", "s", "c", "r", "i", "p", "t", ":">>,
      <<"d", "a", "t", "a", ":">>,
      <<"v", "b", "s", "c", "r", "i", "p", "t", ":">> }

\* pattern.MatchString(input): the pattern occurs somewhere in the input
MatchString(pattern, input) ==
    \E i \in 0..(Len(input) - Len(pattern)) :
        \A k \in 1..Len(pattern) : Fold(input[i + k]) = pattern[k]

\* the place where the inner loop stops: the first j from start on with
\* j >= len(input) or input[j] != char (places count from 1 here)
LoopEnd(input, char, start) ==
    CHOOSE j \in start..(Len(input) + 1) :
        /\ j = Len(input) + 1 \/ input[j] # char
        /\ \A k \in start..(j - 1) : input[k] = char

\* the loops of lines 197-206: count is 1 plus the number of bytes equal to
\* input[i] that follow it; i runs from 0 to len(input)-11
RepeatedCharacters(input) ==
    \E i \in 0..(Len(input) - MaxRepeat - 1) :
        1 + (LoopEnd(input, input[i + 1], i + 2) - (i + 2)) > MaxRepeat

\* (variant) an input of exactly 500 bytes is too long as well
TooLongInclusive(input) == Len(input) >= MaxInputLen

\* line 183: len(input) > 500, the number of bytes of the string
TooLong(input) == Len(input) > MaxInputLen

\* (variant) the empty test comes before the length test
validateChatbotInputEmptyFirst(input) ==
    IF Len(TrimSpace(input)) = 0
        THEN "input cannot be empty"
    ELSE IF TooLong(input)
        THEN "input too long (max 500 characters)"
    ELSE IF RepeatedCharacters(input)
        THEN "invalid input detected"
    ELSE IF \E pattern \in suspiciousPatterns : MatchString(pattern, input)
        THEN "invalid input detected"
    ELSE ""

\* (variant) one reason for every rejection
validateChatbotInputOneReason(input) ==
    IF \/ TooLong(input)
       \/ Len(TrimSpace(input)) = 0
       \/ RepeatedCharacters(input)
       \/ \E pattern \in suspiciousPatterns : MatchString(pattern, input)
        THEN "invalid input detected"
    ELSE ""

\* the error validateChatbotInput returns, "" for nil
validateChatbotInput(input) ==
    IF TooLong(input)
        THEN "input too long (max 500 characters)"
    ELSE IF Len(TrimSpace(input)) = 0
        THEN "input cannot be empty"
    ELSE IF RepeatedCharacters(input)
        THEN "invalid input detected"
    ELSE IF \E pattern \in suspiciousPatterns : MatchString(pattern, input)
        THEN "invalid input detected"
    ELSE ""

\* ---------------------------------------------------------- getClientIP
\* strings.Split(xff, ",")[0]
FirstPart(xff) ==
    IF \E i \in 1..Len(xff) : xff[i] = ","
    THEN SubSeq(xff, 1, (CHOOSE i \in 1..Len(xff) :
                            xff[i] = "," /\ \A j \in 1..(i - 1) : xff[j] # ",") - 1)
    ELSE xff

\* net.SplitHostPort(r.RemoteAddr): the host, or an error (no port, or a host
\* with a colon in it)
SplitHostPort(addr) ==
    LET colons == {i \in 1..Len(addr) : addr[i] = ":"}
    IN  IF Cardinality(colons) # 1
        THEN [ip |-> "", err |-> TRUE]
        ELSE [ip |-> Join(SubSeq(addr, 1, (CHOOSE i \in colons : TRUE) - 1)),
              err |-> FALSE]

\* (variant) X-Real-IP is looked at before X-Forwarded-For
getClientIPRealIPFirst(r) ==
    IF r.xri # <<>> THEN Join(r.xri)
    ELSE IF r.xff # <<>> THEN Join(TrimSpace(FirstPart(r.xff)))
    ELSE IF SplitHostPort(r.remoteAddr).err THEN Join(r.remoteAddr)
    ELSE SplitHostPort(r.remoteAddr).ip

getClientIP(r) ==
    IF r.xff # <<>> THEN Join(TrimSpace(FirstPart(r.xff)))
    ELSE IF r.xri # <<>> THEN Join(r.xri)
    ELSE IF SplitHostPort(r.remoteAddr).err THEN Join(r.remoteAddr)
    ELSE SplitHostPort(r.remoteAddr).ip

\* --------------------------------------------------------- handleChatbot
NoHeader == <<>>
FromA == <<"a", ":", "80">>

\* the requests that arrive: method, X-Forwarded-For, X-Real-IP, RemoteAddr
Requests ==
    { [method |-> method, xff |-> NoHeader, xri |-> NoHeader, remoteAddr |-> FromA] :
        method \in {"POST", "OPTIONS", "GET"} }
    \cup
    { [method |-> "POST", xff |-> <<"b", ",", " ", "a">>, xri |-> <<"a">>,
       remoteAddr |-> FromA] }

\* the bodies json.NewDecoder(r.Body).Decode reads: no JSON, or a query
Bodies ==
    { [json |-> FALSE, query |-> <<>>],
      [json |-> TRUE, query |-> <<"h", "i">>],
      [json |-> TRUE, query |-> <<"H", "a", "c", "k">>],
      [json |-> TRUE, query |-> <<" ">>] }

\* (variant) Lock does not wait for the holder
MutexFreeAlways == TRUE

MutexFree == mutex = "free"

\* lines 1234-1262: CORS, the method tests, getClientIP
Arrive(h, r) ==
    /\ handler[h].pc = "idle"
    /\ arrivals < MaxRequests
    /\ arrivals' = arrivals + 1
    /\ handler' = [handler EXCEPT ![h] =
         IF r.method = "OPTIONS"
         THEN [@ EXCEPT !.pc = "done", !.r = r, !.status = 200]
         ELSE IF r.method # "POST"
         THEN [@ EXCEPT !.pc = "done", !.r = r, !.status = 405]
         ELSE [@ EXCEPT !.pc = "lock", !.r = r, !.clientIP = getClientIP(r)]]
    /\ UNCHANGED <<limiterVars, mutex, llmService, sweeper, refused>>

\* IsAllowed, line 119: rl.mutex.Lock()
Lock(h) ==
    /\ handler[h].pc = "lock"
    /\ MutexFree
    /\ mutex' = h
    /\ handler' = [handler EXCEPT ![h].pc = "lookup"]
    /\ UNCHANGED <<limiterVars, llmService, sweeper, arrivals, refused>>

\* IsAllowed, lines 122-132: now := time.Now(); get or create client limiter
Lookup(h) ==
    /\ handler[h].pc = "lookup"
    /\ clients' = GetOrCreate(clients, handler[h].clientIP, clock)
    /\ handler' = [handler EXCEPT ![h].pc = "check", ![h].now = clock]
    /\ UNCHANGED <<clock, last, admitted, calls, touched, mutex, llmService, sweeper, arrivals, refused>>

\* IsAllowed, lines 134-158: client.requests = validRequests, count the recent
\* requests, test the limits
Check(h) ==
    /\ handler[h].pc = "check"
    /\ LET valid == ValidRequests(clients[handler[h].clientIP].requests, handler[h].now)
       IN  /\ clients' = [clients EXCEPT ![handler[h].clientIP].requests = valid]
           /\ handler' = [handler EXCEPT ![h] =
                IF OverLimit(RecentRequests(valid, handler[h].now), Len(valid))
                THEN [@ EXCEPT !.pc = "unlock", !.allowed = "false"]
                ELSE [@ EXCEPT !.pc = "append"]]
    /\ UNCHANGED <<clock, last, admitted, calls, touched, mutex, llmService, sweeper, arrivals, refused>>

\* (variant) the new timestamp is put in front of the others
AddRequestFront(h) ==
    /\ handler[h].pc = "append"
    /\ clients' = [clients EXCEPT ![handler[h].clientIP].requests =
                        <<handler[h].now>> \o @]
    /\ admitted' = [admitted EXCEPT ![handler[h].clientIP] = Append(@, handler[h].now)]
    /\ handler' = [handler EXCEPT ![h].pc = "unlock", ![h].allowed = "true"]
    /\ UNCHANGED <<clock, last, calls, touched, mutex, llmService, sweeper, arrivals, refused>>

\* (variant) the call returns true and records nothing
AddRequestForgets(h) ==
    /\ handler[h].pc = "append"
    /\ admitted' = [admitted EXCEPT ![handler[h].clientIP] = Append(@, handler[h].now)]
    /\ handler' = [handler EXCEPT ![h].pc = "unlock", ![h].allowed = "true"]
    /\ UNCHANGED <<clock, clients, last, calls, touched, mutex, llmService, sweeper, arrivals, refused>>

\* IsAllowed, lines 160-162: client.requests = append(client.requests, now)
AddRequest(h) ==
    /\ handler[h].pc = "append"
    /\ clients' = [clients EXCEPT ![handler[h].clientIP].requests =
                        Append(@, handler[h].now)]
    /\ admitted' = [admitted EXCEPT ![handler[h].clientIP] = Append(@, handler[h].now)]
    /\ handler' = [handler EXCEPT ![h].pc = "unlock", ![h].allowed = "true"]
    /\ UNCHANGED <<clock, last, calls, touched, mutex, llmService, sweeper, arrivals, refused>>

\* (variant) the result of IsAllowed is not tested
ProceedsAlways(allowed) == TRUE

\* handleChatbot goes on after a call that returned true
Proceeds(allowed) == allowed = "true"

\* IsAllowed, line 120: the deferred rl.mutex.Unlock(); then lines 1263-1268
Unlock(h) ==
    /\ handler[h].pc = "unlock"
    /\ mutex' = "free"
    /\ handler' = [handler EXCEPT ![h] =
         IF Proceeds(@.allowed)
         THEN [@ EXCEPT !.pc = "decode", !.now = 0]
         ELSE [@ EXCEPT !.pc = "done", !.now = 0, !.status = 429]]
    /\ UNCHANGED <<limiterVars, llmService, sweeper, arrivals, refused>>

\* (variant) the answer does not tell the validation error
BadRequestNoReason(err) == "Invalid input"

\* line 1285: fmt.Sprintf("Invalid input: %v", err)
BadRequest(err) == "Invalid input: " \o err

\* (variant) the validation error is logged and the request goes on
RefusedNever(err) == FALSE

\* the validation error that ends the request
Refused(err) == err # ""

\* lines 1270-1300: decode the body, validate the query, test h.llmService
Decode(h, body) ==
    /\ handler[h].pc = "decode"
    /\ LET err == validateChatbotInput(body.query)
       IN  handler' = [handler EXCEPT ![h] =
             IF ~body.json
             THEN [@ EXCEPT !.pc = "done", !.status = 400, !.err = "Invalid JSON request"]
             ELSE IF Refused(err)
             THEN [@ EXCEPT !.pc = "done", !.status = 400, !.validated = TRUE,
                            !.query = body.query, !.err = BadRequest(err)]
             ELSE IF llmService = "nil"
             THEN [@ EXCEPT !.pc = "done", !.status = 200, !.validated = TRUE,
                            !.query = body.query]
             ELSE [@ EXCEPT !.pc = "llm", !.validated = TRUE, !.query = body.query]]
    /\ UNCHANGED <<limiterVars, mutex, llmService, sweeper, arrivals>>

\* lines 1302-1318: h.llmService.ProcessQuery, which answers or fails
ProcessQuery(h, failed) ==
    /\ handler[h].pc = "llm"
    /\ handler' = [handler EXCEPT ![h] =
         [@ EXCEPT !.pc = "done", !.llm = TRUE,
                   !.status = IF failed THEN 500 ELSE 200]]
    /\ UNCHANGED <<limiterVars, mutex, llmService, sweeper, arrivals, refused>>

\* the handler returns; its goroutine can serve the next request
Return(h) ==
    /\ handler[h].pc = "done"
    /\ handler' = [handler EXCEPT ![h] = Idle]
    /\ UNCHANGED <<limiterVars, mutex, llmService, sweeper, arrivals, refused>>

\* ------------------------------------------- the cleanup goroutine (main)
\* (variant) the sweep does not take the lock of IsAllowed
SweepLockNoWait ==
    /\ sweeper = "wait"
    /\ sweeper' = "sweep"
    /\ UNCHANGED <<limiterVars, mutex, llmService, handler, arrivals, refused>>

\* lines 1349-1350 and 167: a tick of the ticker, rl.mutex.Lock()
SweepLock ==
    /\ sweeper = "wait"
    /\ MutexFree
    /\ mutex' = "cleanup"
    /\ sweeper' = "sweep"
    /\ UNCHANGED <<limiterVars, llmService, handler, arrivals, refused>>

\* lines 170-177: now := time.Now() and the loop over rl.clients
Sweep ==
    /\ sweeper = "sweep"
    /\ clients' = CleanupClients(clients, clock)
    /\ sweeper' = "unlock"
    /\ UNCHANGED <<clock, last, admitted, calls, touched, mutex, llmService, handler, arrivals, refused>>

\* (variant) Cleanup returns without the Unlock
SweepUnlockKeepsLock ==
    /\ sweeper = "unlock"
    /\ sweeper' = "wait"
    /\ UNCHANGED <<limiterVars, mutex, llmService, handler, arrivals, refused>>

\* line 168: the deferred rl.mutex.Unlock()
SweepUnlock ==
    /\ sweeper = "unlock"
    /\ mutex' = "free"
    /\ sweeper' = "wait"
    /\ UNCHANGED <<limiterVars, llmService, handler, arrivals, refused>>

\* The window client a holds after 9 admitted requests, 3 in each of 3 minutes
WarmRequests ==
    [i \in 1..(FiveMinuteLimit - 1) |-> ((i - 1) \div PerMinuteLimit) * OneMinute]

WarmClock == ((FiveMinuteLimit - 1) \div PerMinuteLimit) * OneMinute

\* The server is watched from WarmClock on, for MaxServerTicks ticks
TickServer ==
    /\ clock < WarmClock + MaxServerTicks
    /\ Tick
    /\ UNCHANGED <<calls, touched, serverVars>>

\* At WarmClock the registry is empty (no request came so far), or it holds
\* the window of client a filled by 9 earlier requests
InitWarm ==
    /\ clock = WarmClock
    /\ clients = [ip \in {"a"} |-> [requests |-> WarmRequests, lastReset |-> 0]]
    /\ last = NoCall
    /\ admitted = [ip \in ClientIPs |-> IF ip = "a" THEN WarmRequests ELSE <<>>]
    /\ calls = [ip \in ClientIPs |-> 0]
    /\ touched = [ip \in ClientIPs |-> -1]
    /\ llmService \in {"nil", "set"}
    /\ InitServer

InitCold ==
    /\ clock = WarmClock
    /\ clients = NewRateLimiter
    /\ last = NoCall
    /\ admitted = [ip \in ClientIPs |-> <<>>]
    /\ calls = [ip \in ClientIPs |-> 0]
    /\ touched = [ip \in ClientIPs |-> -1]
    /\ llmService \in {"nil", "set"}
    /\ InitServer

Next ==
    \/ \E h \in Handlers, r \in Requests : Arrive(h, r)
    \/ \E h \in Handlers : Lock(h)
    \/ \E h \in Handlers : Lookup(h)
    \/ \E h \in Handlers : Check(h)
    \/ \E h \in Handlers : AddRequest(h)
    \/ \E h \in Handlers : Unlock(h)
    \/ \E h \in Handlers, body \in Bodies : Decode(h, body) /\ UNCHANGED refused
    \/ \E h \in Handlers, failed \in BOOLEAN : ProcessQuery(h, failed)
    \/ \E h \in Handlers : Return(h)
    \/ SweepLock
    \/ Sweep
    \/ SweepUnlock
    \/ TickServer

Spec == (InitCold \/ InitWarm) /\ [][Next]_vars

\* ------------------------------------------- the guard on its inputs
\* n times the same byte, and the first n bytes of word word word ...
Rep(byte, n) == [i \in 1..n |-> byte]
Cycle(word, n) == [i \in 1..n |-> word[((i - 1) % Len(word)) + 1]]

\* strings.ToUpper on a sequence of bytes
ToUpper(input) ==
    [i \in 1..Len(input) |->
        IF \E k \in 1..26 : LowerCase[k] = input[i]
        THEN UpperCase[CHOOSE k \in 1..26 : LowerCase[k] = input[i]]
        ELSE input[i]]

\* the two bytes of U+00E9 in UTF-8, each written as one piece
EAcute == <<"C3", "A9">>

Hack == <<"h", "a", "c", "k">>
PleaseHack ==
    <<"p", "l", "e", "a", "s", "e", " ">> \o Hack \o
    <<" ", "t", "h", "e", " ", "s", "y", "s", "t", "e", "m">>

\* queries around the empty test
BlankQueries ==
    { <<>>, <<" ">>, <<" ", " ", " ">>, <<"\t", " ", "\n", "\r">>,
      Rep(" ", MaxInputLen), Rep(" ", MaxInputLen + 1),
      <<" ", "h", "i", " ">> }

\* queries around the length test
LongQueries ==
    { Cycle(<<"a", "b">>, n) : n \in {MaxInputLen - 1, MaxInputLen, MaxInputLen + 1} }
    \cup { Rep("a", MaxInputLen + 1),
           Cycle(Hack \o <<" ">>, MaxInputLen),
           Cycle(Hack \o <<" ">>, MaxInputLen + 1),
           Cycle(EAcute, MaxInputLen + 2) }

\* queries around the repeated-character test: a run of 10 or 11 at the
\* start, in the middle and at the end, of a letter, of a space, of U+00E9
RunQueries ==
    { pre \o Rep(byte, n) \o post :
        pre \in {<<>>, <<"b">>}, post \in {<<>>, <<"b", "c">>},
        byte \in {"a", " "}, n \in {MaxRepeat, MaxRepeat + 1} }
    \cup { Rep("a", MaxRepeat) \o <<"b">> \o Rep("a", MaxRepeat),
           Rep("a", MaxRepeat) \o <<"A">>,
           Cycle(EAcute, 2 * MaxRepeat), Cycle(EAcute, 2 * (MaxRepeat + 1)),
           Hack \o Rep("k", MaxRepeat) }

\* queries around the pattern test: each term alone and inside a sentence,
\* in lower and in upper case, and near misses
PatternQueries ==
    suspiciousPatterns
    \cup { <<"x", " ">> \o ToUpper(term) \o <<"s">> : term \in suspiciousPatterns }
    \cup { PleaseHack, <<"h", "A", "c", "K">>, <<"h", "i">>,
           <<"d", "a", "t", "a">>, <<"h", "a", "c", " ", "k">>,
           <<"s", "c", "r", "i", "p", "t">> }

Queries == BlankQueries \cup LongQueries \cup RunQueries \cup PatternQueries

GuardBodies ==
    { [json |-> FALSE, query |-> <<>>] }
    \cup { [json |-> TRUE, query |-> query] : query \in Queries }

\* the requests around getClientIP: each header present or not
GuardRequests ==
    { [method |-> "POST", xff |-> xff, xri |-> xri, remoteAddr |-> remoteAddr] :
        xff \in {NoHeader, <<"a">>, <<"b", ",", " ", "a">>, <<" ", "a", " ", ",", "b">>},
        xri \in {NoHeader, <<"a">>, <<"b">>},
        remoteAddr \in {FromA, <<"b", ":", "80">>, <<"b">>} }

\* Decode, with the refusals counted
DecodeCounted(h, body) ==
    /\ Decode(h, body)
    /\ refused' = IF handler'[h].status = 400
                  THEN [refused EXCEPT ![handler[h].clientIP] = @ + 1]
                  ELSE refused

\* One goroutine serving request after request, each with any of the queries
NextGuard ==
    \/ \E r \in Requests : Arrive("h1", r)
    \/ Lock("h1")
    \/ Lookup("h1")
    \/ Check("h1")
    \/ AddRequest("h1")
    \/ Unlock("h1")
    \/ \E body \in GuardBodies : DecodeCounted("h1", body)
    \/ \E failed \in BOOLEAN : ProcessQuery("h1", failed)
    \/ Return("h1")

SpecGuard == InitCold /\ [][NextGuard]_vars

\* One goroutine serving request after request, each with any of the headers
NextIdentity ==
    \/ \E r \in GuardRequests : Arrive("h1", r)
    \/ Lock("h1")
    \/ Lookup("h1")
    \/ Check("h1")
    \/ AddRequest("h1")
    \/ Unlock("h1")
    \/ \E body \in Bodies : Decode("h1", body) /\ UNCHANGED refused
    \/ \E failed \in BOOLEAN : ProcessQuery("h1", failed)
    \/ Return("h1")

SpecIdentity == InitCold /\ [][NextIdentity]_vars

\* ------------------------------------------------------------ properties
\* A step that is a call IsAllowed(ip), and one that is a Cleanup sweep
IsAllowedStep(ip) ==
    clock' = clock /\ last'.op = "IsAllowed" /\ last'.ip = ip

CleanupStep ==
    clock' = clock /\ last'.op = "Cleanup"

\* the requests of ip in the registry cl (none when ip has no window)
RequestsOf(cl, ip) == IF ip \in DOMAIN cl THEN cl[ip].requests ELSE <<>>

HalfMinute == TicksPerMinute \div 2

\* C1: per-minute cap. No identifier gets 4 calls admitted in a span shorter
\* than one minute (the 4th admitted call is at least a minute after the 1st
\* of any 4 consecutive admitted calls), and no call is rejected before 3
\* calls of its identifier were admitted, so the first 3 calls return true.
C1_PerMinuteCap ==
    /\ \A ip \in ClientIPs : \A i \in 1..(Len(admitted[ip]) - PerMinuteLimit) :
            admitted[ip][i + PerMinuteLimit] - admitted[ip][i] >= OneMinute
    /\ (last.op = "IsAllowed" /\ ~last.ok)
            => Len(admitted[last.ip]) >= PerMinuteLimit

\* three calls admitted within a minute and a fourth, in the same minute, rejected
C1_Witness ==
    /\ last.op = "IsAllowed" /\ last.ip = "a" /\ ~last.ok
    /\ Len(admitted["a"]) = PerMinuteLimit
    /\ clock - admitted["a"][1] < OneMinute

\* C2: five-minute cap. No identifier gets 11 calls admitted in a span shorter
\* than five minutes: of any 11 consecutive admitted calls the last is at least
\* five minutes after the first, whatever their spacing.
C2_FiveMinuteCap ==
    \A ip \in ClientIPs : \A i \in 1..(Len(admitted[ip]) - FiveMinuteLimit) :
        admitted[ip][i + FiveMinuteLimit] - admitted[ip][i] >= FiveMinutes

\* 10 calls 30 s apart all admitted, the 11th, made right after the 10th, rejected
C2_Witness ==
    /\ Len(admitted["a"]) = FiveMinuteLimit
    /\ \A i \in 1..FiveMinuteLimit : admitted["a"][i] = (i - 1) * HalfMinute
    /\ clock = admitted["a"][FiveMinuteLimit]
    /\ last.op = "IsAllowed" /\ last.ip = "a" /\ ~last.ok

\* C3: per-minute reset. A call of an identifier none of whose admitted calls
\* is less than a minute old, and fewer than 10 of whose admitted calls are
\* less than five minutes old, returns true.
C3_ResetAfterGap ==
    [][\A ip \in ClientIPs :
        (/\ IsAllowedStep(ip)
         /\ \A i \in 1..Len(admitted[ip]) : clock - admitted[ip][i] >= OneMinute
         /\ Cardinality({i \in 1..Len(admitted[ip]) :
                            clock - admitted[ip][i] < FiveMinutes}) < FiveMinuteLimit)
        => last'.ok]_vars

\* 3 calls at one instant, then a call more than a minute later that is admitted
C3_Witness ==
    /\ Len(admitted["a"]) = PerMinuteLimit + 1
    /\ admitted["a"][PerMinuteLimit] = admitted["a"][1]
    /\ admitted["a"][PerMinuteLimit + 1] - admitted["a"][PerMinuteLimit] > OneMinute
    /\ last.op = "IsAllowed" /\ last.ip = "a" /\ last.ok

\* C4, as stated: a rejected call leaves the whole registry as it was.
C4_RejectionMutatesNothing ==
    [][\A ip \in ClientIPs :
        (IsAllowedStep(ip) /\ ~last'.ok) => clients' = clients]_vars

\* C4, amended: a rejected call appends nothing, removes no identifier and
\* leaves every other identifier's window as it was; in the caller's window it
\* removes the timestamps that are five minutes old or older, and only those.
C4_RejectionOnlyPurges ==
    [][\A ip \in ClientIPs :
        (IsAllowedStep(ip) /\ ~last'.ok) =>
            /\ ip \in DOMAIN clients
            /\ DOMAIN clients' = DOMAIN clients
            /\ \A other \in DOMAIN clients \ {ip} : clients'[other] = clients[other]
            /\ clients'[ip].lastReset = clients[ip].lastReset
            /\ clients'[ip].requests =
                 SelectSeq(clients[ip].requests, LAMBDA t : clock - t < FiveMinutes)]_vars

\* a rejected call whose purge removed a timestamp
C4_Witness ==
    last.op = "IsAllowed" /\ ~last.ok /\ last.purged > 0

\* C5: decision rule. With the caller's window purged of the timestamps five
\* minutes old or older, the call returns false exactly when at least 3 of the
\* remaining timestamps are less than a minute old or at least 10 remain; when
\* it returns true the window is the purged one with now appended at its end.
C5_DecisionRule ==
    [][\A ip \in ClientIPs :
        IsAllowedStep(ip) =>
            LET kept == SelectSeq(RequestsOf(clients, ip),
                                  LAMBDA t : clock - t < FiveMinutes)
                recent == Cardinality({i \in 1..Len(kept) : clock - kept[i] < OneMinute})
            IN  /\ last'.ok = ~(recent >= PerMinuteLimit \/ Len(kept) >= FiveMinuteLimit)
                /\ last'.ok => RequestsOf(clients', ip) = kept \o <<clock>>]_vars

\* a call admitted as the 10th of its window, after a purge: both limits at
\* their boundary value
C5_Witness ==
    /\ last.op = "IsAllowed" /\ last.ip = "a" /\ last.ok /\ last.purged > 0
    /\ Len(clients["a"].requests) = FiveMinuteLimit

\* C7: a sweep removes no window that holds a timestamp and leaves every such
\* window as it was.
C7_CleanupKeepsNonEmpty ==
    [][CleanupStep =>
        \A ip \in DOMAIN clients :
            Len(clients[ip].requests) >= 1 =>
                ip \in DOMAIN clients' /\ clients'[ip] = clients[ip]]_vars

\* a sweep has run over two windows created more than five minutes before it,
\* one of them holding only timestamps older than five minutes
C7_Witness ==
    /\ last.op = "Cleanup" /\ last.stale = ClientIPs
    /\ DOMAIN clients = ClientIPs
    /\ \E ip \in ClientIPs : clients[ip].requests = <<clients[ip].lastReset>>

\* C9, as stated (with the sweep that runs more than five minutes after the
\* request as the one that reclaims): the window of a client that made one
\* request is gone once such a sweep has run.
C9_OneOffClientReclaimed ==
    \A ip \in ClientIPs :
        (calls[ip] = 1 /\ last.op = "Cleanup" /\ ip \in last.stale)
            => ip \notin DOMAIN clients

\* C9, amended: the window of a client that made one request stays in the
\* registry, with its one timestamp, whatever sweeps run and however late.
C9_OneOffClientLingers ==
    \A ip \in ClientIPs :
        calls[ip] = 1 => ip \in DOMAIN clients /\ Len(clients[ip].requests) = 1

\* client b made one request, more than five minutes passed, the sweep ran
C9_Witness ==
    /\ calls["b"] = 1 /\ last.op = "Cleanup" /\ "b" \in last.stale
    /\ "b" \in DOMAIN clients

\* a handler between rl.mutex.Lock() and the deferred Unlock of IsAllowed
InIsAllowed(h) == handler[h].pc \in {"lookup", "check", "append", "unlock"}

\* C6: atomic admission. At most one handler is inside IsAllowed between Lock
\* and Unlock, and never while the sweep holds the lock; under every
\* interleaving of the handlers no identifier gets 4 calls admitted in a span
\* shorter than a minute nor 11 in a span shorter than five minutes.
C6_AtomicAdmission ==
    /\ \A h1, h2 \in Handlers : (InIsAllowed(h1) /\ InIsAllowed(h2)) => h1 = h2
    /\ \A h \in Handlers : InIsAllowed(h) => mutex = h
    /\ \A ip \in ClientIPs :
        /\ \A i \in 1..(Len(admitted[ip]) - PerMinuteLimit) :
              admitted[ip][i + PerMinuteLimit] - admitted[ip][i] >= OneMinute
        /\ \A i \in 1..(Len(admitted[ip]) - FiveMinuteLimit) :
              admitted[ip][i + FiveMinuteLimit] - admitted[ip][i] >= FiveMinutes

\* two calls of client a in flight with 2 timestamps in the window: one has
\* passed the test of the limits and is about to append the 3rd, the other
\* waits for the lock
C6_Witness ==
    \E h1, h2 \in Handlers :
        /\ handler[h1].pc = "append" /\ handler[h1].clientIP = "a"
        /\ handler[h2].pc = "lock" /\ handler[h2].clientIP = "a"
        /\ Len(clients["a"].requests) = PerMinuteLimit - 1

\* C10: the downstream call is reached only by a request for which IsAllowed
\* returned true and whose query validateChatbotInput accepted.
C10_DownstreamGuarded ==
    \A h \in Handlers :
        (handler[h].pc = "llm" \/ handler[h].llm) =>
            /\ handler[h].allowed = "true"
            /\ handler[h].validated
            /\ validateChatbotInput(handler[h].query) = ""

\* a request has been answered by ProcessQuery while another one was refused
\* with 400 (undecodable body or refused query) or with 429 (rate limited)
C10_Witness ==
    /\ \E h \in Handlers : handler[h].llm /\ handler[h].status = 200
    /\ \E h \in Handlers : ~handler[h].llm /\ handler[h].status \in {400, 429}

\* C11: a chatbot POST request for which IsAllowed returned false is answered
\* with 429; validateChatbotInput and ProcessQuery are not called for it.
C11_RateLimitedAnswers429 ==
    \A h \in Handlers :
        handler[h].allowed = "false" =>
            /\ handler[h].pc \in {"unlock", "done"}
            /\ handler[h].pc = "done" => handler[h].status = 429
            /\ ~handler[h].validated
            /\ ~handler[h].llm

\* a POST request has been answered after IsAllowed returned false for it
C11_Witness ==
    \E h \in Handlers :
        /\ handler[h].r.method = "POST" /\ handler[h].pc = "done"
        /\ handler[h].allowed = "false" /\ handler[h].status = 429

\* C12: a request whose query validateChatbotInput rejects is answered with
\* 400 and a body that carries the reason of the rejection; ProcessQuery is
\* not called for it.
C12_RefusedAnswers400 ==
    \A h \in Handlers :
        (handler[h].validated /\ validateChatbotInput(handler[h].query) # "") =>
            /\ handler[h].pc = "done"
            /\ handler[h].status = 400
            /\ handler[h].err =
                 "Invalid input: " \o validateChatbotInput(handler[h].query)
            /\ ~handler[h].llm

\* a request with the query "Hack" has been answered
C12_Witness ==
    \E h \in Handlers :
        /\ handler[h].validated /\ handler[h].query = <<"H", "a", "c", "k">>
        /\ handler[h].status = 400
        /\ handler[h].err = "Invalid input: invalid input detected"

\* ---------------------------------------- properties of the input guard
\* the answers to a refused query, by reason
EmptyAnswer == "Invalid input: input cannot be empty"
TooLongAnswer == "Invalid input: input too long (max 500 characters)"
InvalidAnswer == "Invalid input: invalid input detected"

\* the query holds nothing but whitespace (it is empty after trimming)
Blank(query) == \A i \in 1..Len(query) : query[i] \in Whitespace

\* C13, as stated: every query that is empty after trimming is refused with
\* the reason 'empty'.
C13_BlankRefusedAsEmpty ==
    \A h \in Handlers :
        (handler[h].validated /\ Blank(handler[h].query)) =>
            handler[h].err = EmptyAnswer

\* C13, amended: every query that is empty after trimming is refused, with
\* the reason 'empty' when it has at most 500 bytes and with the reason
\* 'too long' when it has more.
C13_BlankRefused ==
    \A h \in Handlers :
        (handler[h].validated /\ Blank(handler[h].query)) =>
            /\ handler[h].status = 400
            /\ Len(handler[h].query) <= 500 => handler[h].err = EmptyAnswer
            /\ Len(handler[h].query) > 500 => handler[h].err = TooLongAnswer

\* a query of a tab, a space and two line ends has been refused as empty
C13_Witness ==
    \E h \in Handlers :
        /\ handler[h].validated /\ handler[h].query = <<"\t", " ", "\n", "\r">>
        /\ handler[h].err = EmptyAnswer

\* A character is one byte, or the two bytes of U+00E9: the place i starts a
\* character unless it holds the second byte of one
SecondBytes == {EAcute[2]}
CharLen(query, i) ==
    IF query[i] = EAcute[1] /\ i < Len(query) /\ query[i + 1] = EAcute[2]
    THEN 2 ELSE 1

\* some character of the query occurs n times in a row
HasRun(query, n) ==
    \E i \in 1..Len(query) :
        /\ query[i] \notin SecondBytes
        /\ LET w == CharLen(query, i)
           IN  /\ i + n * w - 1 <= Len(query)
               /\ \A k \in 0..(n * w - 1) : query[i + k] = query[i + (k % w)]

\* the denylisted terms, and a query that holds one of them in any letter case
DeniedTerms ==
    { <<"h", "a", "c", "k">>, <<"e", "x", "p", "l", "o", "i", "t">>,
      <<"a", "t", "t", "a", "c", "k">>, <<"i", "n", "j", "e", "c", "t">>,
      <<"<", "s", "c", "r", "i", "p", "t">>,
      <<"j", "a", "v", "a", "s", "c", "r", "i", "p", "t", ":">>,
      <<"d", "a", "t", "a", ":">>,
      <<"v", "b", "s", "c", "r", "i", "p", "t", ":">> }

SameLetter(byte, letter) ==
    \/ byte = letter
    \/ \E k \in 1..26 : LowerCase[k] = letter /\ UpperCase[k] = byte

Denylisted(query) ==
    \E term \in DeniedTerms :
        \E i \in 0..(Len(query) - Len(term)) :
            \A k \in 1..Len(term) : SameLetter(query[i + k], term[k])

C15_RunsRefused ==
    \A h \in Handlers :
        handler[h].validated =>
            /\ HasRun(handler[h].query, 11) => handler[h].status = 400
            /\ ( /\ ~HasRun(handler[h].query, 11)
                 /\ Len(handler[h].query) <= 500
                 /\ ~Blank(handler[h].query)
                 /\ ~Denylisted(handler[h].query) )
               => handler[h].err = ""

\* C16: every query that holds one of the denylisted terms, in any letter
\* case and at any place, is refused.
C16_DenylistRefused ==
    \A h \in Handlers :
        (handler[h].validated /\ Denylisted(handler[h].query)) =>
            /\ handler[h].status = 400
            /\ handler[h].err \in {InvalidAnswer, TooLongAnswer}
            /\ ~handler[h].llm

\* the query "x HACKs" has been refused
C16_Witness ==
    \E h \in Handlers :
        /\ handler[h].validated
        /\ handler[h].query = <<"x", " ", "H", "A", "C", "K", "s">>
        /\ handler[h].err = InvalidAnswer

\* a request whose query validateChatbotInput refused
Rejected(h) == handler[h].validated /\ handler[h].status = 400

\* C17, as stated: a refused query gets the reason of the first check it
\* fails in the order empty after trimming, too long, repeated run, denylist.
C17_EmptyTestFirst ==
    \A h \in Handlers :
        Rejected(h) =>
            handler[h].err =
                IF Blank(handler[h].query) THEN EmptyAnswer
                ELSE IF Len(handler[h].query) > 500 THEN TooLongAnswer
                ELSE InvalidAnswer

\* C17, amended: a refused query gets the reason of the first check it fails
\* in the order too long, empty after trimming, repeated run, denylist; every
\* refused query fails one of the four.
C17_LengthTestFirst ==
    \A h \in Handlers :
        Rejected(h) =>
            /\ handler[h].err =
                  IF Len(handler[h].query) > 500 THEN TooLongAnswer
                  ELSE IF Blank(handler[h].query) THEN EmptyAnswer
                  ELSE InvalidAnswer
            /\ \/ Len(handler[h].query) > 500
               \/ Blank(handler[h].query)
               \/ HasRun(handler[h].query, 11)
               \/ Denylisted(handler[h].query)

\* a query of 501 spaces, too long and empty after trimming, has been refused
\* as too long
C17_Witness ==
    \E h \in Handlers :
        /\ Rejected(h) /\ Len(handler[h].query) = 501 /\ Blank(handler[h].query)
        /\ handler[h].err = TooLongAnswer

\* the four checks, each with a query that fails it and no other
Checks == {"too-long", "empty", "repeated-run", "denylist"}
Sample ==
    [check \in Checks |->
        CASE check = "too-long" -> Cycle(<<"a", "b">>, 501)
          [] check = "empty" -> <<" ">>
          [] check = "repeated-run" -> Rep("a", 11)
          [] check = "denylist" -> Hack]

\* the answer to a query that fails the check and no other
AnswerOf(check) == "Invalid input: " \o validateChatbotInput(Sample[check])

\* the first check a refused query fails
FailedCheck(query) ==
    IF Len(query) > 500 THEN "too-long"
    ELSE IF Blank(query) THEN "empty"
    ELSE IF HasRun(query, 11) THEN "repeated-run"
    ELSE "denylist"

\* C18, as stated: the reason of a rejection tells which of the four checks
\* failed; no other check has the same reason.
C18_ReasonTellsCheck ==
    \A h \in Handlers :
        Rejected(h) =>
            /\ handler[h].err = AnswerOf(FailedCheck(handler[h].query))
            /\ \A check \in Checks :
                  handler[h].err = AnswerOf(check) =>
                      check = FailedCheck(handler[h].query)

\* the kinds of reason: the repeated-run and the denylist check share one
Kind(check) ==
    IF check \in {"repeated-run", "denylist"} THEN "invalid" ELSE check

\* C18, amended: the reason of a rejection tells whether the input was too
\* long, empty, or invalid (a repeated run or a denylisted term); these three
\* reasons are pairwise different.
C18_ReasonTellsKind ==
    \A h \in Handlers :
        Rejected(h) =>
            /\ handler[h].err = AnswerOf(FailedCheck(handler[h].query))
            /\ \A check \in Checks :
                  handler[h].err = AnswerOf(check) =>
                      Kind(check) = Kind(FailedCheck(handler[h].query))

\* a query of 11 times the letter a has been refused with the reason a
\* denylisted term gets
C18_Witness ==
    \E h \in Handlers :
        /\ Rejected(h) /\ handler[h].query = Rep("a", 11)
        /\ handler[h].err = AnswerOf("denylist")

\* ------------------------------------ properties of the client identifier
\* id is the first comma-separated entry of the header value, without the
\* whitespace around it
FirstEntry(xff, id) ==
    \E i \in 1..(Len(xff) + 1), j \in 0..Len(xff) :
        /\ id = Join(SubSeq(xff, i, j))
        /\ \A k \in 1..j : xff[k] # ","
        /\ \A k \in 1..(i - 1) : xff[k] \in Whitespace
        /\ i <= j => xff[i] \notin Whitespace /\ xff[j] \notin Whitespace
        /\ \E end \in j..Len(xff) :
              /\ \A k \in (j + 1)..end : xff[k] \in Whitespace
              /\ end = Len(xff) \/ xff[end + 1] = ","

\* id is the connection address: its host when it is host:port, else all of it
ConnectionAddress(remoteAddr, id) ==
    \/ \E host \in {"a", "b"}, port \in {"80"} :
          remoteAddr = <<host, ":", port>> /\ id = host
    \/ (\A k \in 1..Len(remoteAddr) : remoteAddr[k] # ":") /\ id = Join(remoteAddr)

\* C19: the identifier of a chatbot request is the first entry of
\* X-Forwarded-For when that header is present, else the value of X-Real-IP
\* when that header is present, else the connection address.
C19_IdentifierPreference ==
    \A h \in Handlers :
        handler[h].pc \notin {"idle"} /\ handler[h].r.method = "POST" =>
            LET r == handler[h].r
                id == handler[h].clientIP
            IN  /\ r.xff # <<>> => FirstEntry(r.xff, id)
                /\ (r.xff = <<>> /\ r.xri # <<>>) => id = Join(r.xri)
                /\ (r.xff = <<>> /\ r.xri = <<>>) =>
                       ConnectionAddress(r.remoteAddr, id)

\* a request that came from b with X-Forwarded-For " a ,b" and X-Real-IP b
\* has been served under the identifier a
C19_Witness ==
    \E h \in Handlers :
        /\ handler[h].pc = "done"
        /\ handler[h].r.xff = <<" ", "a", " ", ",", "b">>
        /\ handler[h].r.xri = <<"b">>
        /\ handler[h].r.remoteAddr = <<"b", ":", "80">>
        /\ handler[h].clientIP = "a"

\* ------------------------------------------------ properties of the purge
\* the timestamps of a window that are not older than five minutes at now
NotOlder(requests, now) ==
    SelectSeq(requests, LAMBDA reqTime : reqTime >= now - FiveMinutes)

\* C20: a call IsAllowed(ip) at time now removes from the window of ip
\* exactly the timestamps older than now - 5 min; a timestamp equal to
\* now - 5 min is kept. The window after the call holds the timestamps that
\* are not older, followed by now when the call is admitted.
C20_PurgeOlderOnly ==
    [][\A ip \in ClientIPs :
        IsAllowedStep(ip) =>
            LET kept == NotOlder(RequestsOf(clients, ip), clock)
            IN  clients'[ip].requests =
                    IF last'.ok THEN Append(kept, clock) ELSE kept]_vars

\* ------------------------------------------- properties of the registry
\* the window holds no timestamp older than five minutes at now
Purged(requests, now) ==
    \A i \in 1..Len(requests) : requests[i] >= now - FiveMinutes

\* C21: whenever a window is counted (the admission check of IsAllowed) or
\* tested for emptiness (Cleanup), its timestamps older than five minutes
\* have been purged: the window IsAllowed decided on, and every window a
\* sweep looks at, holds none.
C21_ReadsPurgedWindow ==
    [][/\ \A ip \in ClientIPs :
            IsAllowedStep(ip) => Purged(clients'[ip].requests, clock)
       /\ CleanupStep =>
            \A ip \in DOMAIN clients : Purged(clients[ip].requests, clock)]_vars

\* C22: a sweep removes a window only when its timestamp sequence is empty
\* and no IsAllowed call of its identifier was made in the last five
\* minutes; a window touched by a call less than five minutes ago stays,
\* however long ago it was created.
C22_RemovesOnlyEmptyUntouched ==
    [][CleanupStep =>
        \A ip \in DOMAIN clients :
            ip \notin DOMAIN clients' =>
                /\ Len(clients[ip].requests) = 0
                /\ touched[ip] <= clock - FiveMinutes]_vars

\* a sweep has run over the window of a, created more than five minutes
\* before it and touched by a call less than five minutes before it
C22_Witness ==
    /\ last.op = "Cleanup" /\ "a" \in last.stale
    /\ touched["a"] > clock - FiveMinutes
    /\ "a" \in DOMAIN clients

\* the sweep between rl.mutex.Lock() and the deferred Unlock of Cleanup
InCleanup == sweeper \in {"sweep", "unlock"}

\* C23: the sweep and the IsAllowed calls exclude each other. While the
\* sweep reads or deletes entries no call is between its Lock and its
\* Unlock, and the window a call counts and appends to is in the registry.
C23_SweepExcludesCalls ==
    /\ InCleanup => \A h \in Handlers : ~InIsAllowed(h)
    /\ \A h \in Handlers :
          handler[h].pc \in {"check", "append"} =>
              handler[h].clientIP \in DOMAIN clients

\* the sweep is about to scan a registry with an entry while an IsAllowed
\* call of a request waits at rl.mutex.Lock()
C23_Witness ==
    /\ sweeper = "sweep" /\ DOMAIN clients # {}
    /\ \E h \in Handlers : handler[h].pc = "lock"

\* C24, as stated: no IsAllowed call of a request waits for the lock while
\* a sweep holds it.
C24_SweepNeverBlocks ==
    \A h \in Handlers : ~(handler[h].pc = "lock" /\ mutex = "cleanup")

\* C24, amended: the sweep holds the lock, and so can make a call wait, only
\* while it runs, never while it waits for the next tick of its timer; it is
\* the only holder then.
C24_SweepHoldsLockOnlyWhileRunning ==
    /\ mutex = "cleanup" <=> InCleanup
    /\ sweeper = "wait" => mutex \in Handlers \cup {"free"}

\* an IsAllowed call waits at rl.mutex.Lock() while the sweep, its scan done,
\* still holds the lock
C24_Witness ==
    /\ sweeper = "unlock" /\ mutex = "cleanup"
    /\ \E h \in Handlers : handler[h].pc = "lock"

\* the timestamps never decrease from first to last
ArrivalOrder(requests) ==
    \A i \in 1..(Len(requests) - 1) : requests[i] <= requests[i + 1]

\* C25: the timestamp sequence of every window is in arrival order, never
\* decreasing from first to last, under every interleaving of the calls.
C25_WindowsInArrivalOrder ==
    \A ip \in DOMAIN clients : ArrivalOrder(clients[ip].requests)

\* a window holds timestamps of two different times while a further call of
\* the same identifier, started concurrently, waits for the lock
C25_Witness ==
    \E ip \in DOMAIN clients, h \in Handlers :
        /\ Len(clients[ip].requests) >= 2
        /\ clients[ip].requests[1] < clients[ip].requests[Len(clients[ip].requests)]
        /\ clients[ip].requests[Len(clients[ip].requests)] = clock
        /\ handler[h].pc = "lock" /\ handler[h].clientIP = ip
        /\ mutex \in Handlers

\* C26: between calls every window of the registry holds at least one
\* timestamp, so no sweep finds a window to remove (created more than five
\* minutes ago and empty), a sweep changes nothing, and the set of
\* identifiers in the registry never shrinks.
C26_WindowsNeverEmpty ==
    [][/\ \A ip \in DOMAIN clients' : Len(clients'[ip].requests) >= 1
       /\ DOMAIN clients \subseteq DOMAIN clients'
       /\ CleanupStep =>
            /\ clients' = clients
            /\ \A ip \in DOMAIN clients :
                  ~(/\ clients[ip].lastReset < clock - FiveMinutes
                    /\ Len(clients[ip].requests) = 0)]_vars

\* a call has purged every timestamp of its window, was admitted and left
\* the window with its own timestamp alone
C26_Witness ==
    /\ last.op = "IsAllowed" /\ last.ok /\ last.purged >= 2
    /\ clients[last.ip].requests = <<clock>>

\* C27: in every reachable state every window holds at most 10 timestamps,
\* under every interleaving of the calls and the sweeps.
C27_WindowAtMostTen ==
    \A ip \in DOMAIN clients : Len(clients[ip].requests) <= FiveMinuteLimit

\* a window is full, and a request that found fewer than 3 timestamps in the
\* last minute was turned away by the test on the length of the window
C27_Witness ==
    \E h \in Handlers :
        /\ handler[h].pc = "done" /\ handler[h].status = 429
        /\ Len(clients[handler[h].clientIP].requests) = FiveMinuteLimit
        /\ Cardinality({i \in 1..FiveMinuteLimit :
               clock - clients[handler[h].clientIP].requests[i] < OneMinute})
             < PerMinuteLimit

\* C28: IsAllowed(A) changes at most the window of A. It leaves the window of
\* every other identifier as it was, removes no identifier and adds none but
\* A, and its result is decided by the calls of A alone: by the admitted
\* calls of A that are less than five minutes old, whatever the others did.
C28_OnlyOwnWindow ==
    [][\A ip \in ClientIPs :
        IsAllowedStep(ip) =>
            LET own == SelectSeq(admitted[ip], LAMBDA t : clock - t < FiveMinutes)
                recent == Cardinality({i \in 1..Len(own) : clock - own[i] < OneMinute})
            IN  /\ DOMAIN clients \subseteq DOMAIN clients'
                /\ DOMAIN clients' \subseteq DOMAIN clients \cup {ip}
                /\ \A other \in DOMAIN clients \ {ip} :
                      clients'[other] = clients[other]
                /\ \A other \in ClientIPs \ {ip} : admitted'[other] = admitted[other]
                /\ last'.ok = ~(recent >= PerMinuteLimit \/ Len(own) >= FiveMinuteLimit)]_vars

\* the first call of a is admitted while b, who came before, is at its limit
C28_Witness ==
    /\ last.op = "IsAllowed" /\ last.ip = "a" /\ last.ok
    /\ clients["a"].requests = <<clock>>
    /\ "b" \in DOMAIN clients
    /\ clients["b"].lastReset < clients["a"].lastReset
    /\ Len(clients["b"].requests) = PerMinuteLimit
    /\ calls["b"] > PerMinuteLimit

\* C29: IsAllowed is called before the body is decoded and the query is
\* validated, so a request answered 400 was admitted and has left its
\* timestamp in the window of its identifier; the requests here all arrive at
\* one instant, so once 3 requests of an identifier were answered 400 the
\* next request of that identifier is not decoded and is answered 429.
C29_RefusedRequestsCount ==
    /\ \A h \in Handlers :
          handler[h].status = 400 =>
              /\ handler[h].allowed = "true"
              /\ clock \in {clients[handler[h].clientIP].requests[i] :
                                i \in 1..Len(clients[handler[h].clientIP].requests)}
    /\ \A ip \in ClientIPs :
          refused[ip] > 0 =>
              /\ ip \in DOMAIN clients
              /\ Len(clients[ip].requests) >= refused[ip]
    /\ \A h \in Handlers :
          (/\ handler[h].clientIP \in ClientIPs
           /\ refused[handler[h].clientIP] >= PerMinuteLimit
           /\ handler[h].status # 400)
          => /\ handler[h].pc \notin {"append", "decode", "llm"}
             /\ handler[h].allowed # "true"
             /\ handler[h].pc = "done" => handler[h].status = 429

\* 3 requests of a were answered 400 and the 4th is answered 429
C29_Witness ==
    /\ refused["a"] = PerMinuteLimit
    /\ arrivals = PerMinuteLimit + 1
    /\ handler["h1"].pc = "done" /\ handler["h1"].status = 429
    /\ handler["h1"].clientIP = "a"
    /\ Len(clients["a"].requests) = PerMinuteLimit

\* C30: rejected calls do not postpone re-admission. A call made more than
\* five minutes after the most recent admitted call of its identifier (or
\* the first call of the identifier) returns true, whatever number of calls
\* of the identifier were rejected in between.
C30_ReadmittedAfterFiveMinutes ==
    [][\A ip \in ClientIPs :
        (/\ IsAllowedStep(ip)
         /\ \/ admitted[ip] = <<>>
            \/ clock - admitted[ip][Len(admitted[ip])] > FiveMinutes)
        => /\ last'.ok
           /\ RequestsOf(clients', ip) = <<clock>>]_vars

\* a was admitted 3 times, then rejected, and is admitted again more than
\* five minutes after its third admitted call
C30_Witness ==
    /\ last.op = "IsAllowed" /\ last.ip = "a" /\ last.ok
    /\ Len(admitted["a"]) = PerMinuteLimit + 1
    /\ calls["a"] > PerMinuteLimit + 1
    /\ clock - admitted["a"][PerMinuteLimit] > FiveMinutes
    /\ admitted["a"][PerMinuteLimit + 1] = clock
====
